---- MODULE Spec2Model ----
(***************************************************************************)
(* File sharing server of file_transfer_protocol_v1.py: the per-connection *)
(* handler FileSharingServer.handle_client, one thread per connection, all *)
(* threads sharing the directory shared_dir.  Every system call of the     *)
(* handler that touches the shared directory is one step, so that the      *)
(* steps of different sessions interleave as the threads do.               *)
(***************************************************************************)
EXTENDS Integers, Sequences, FiniteSets, TLC

\* ------------------------------------------------------------------ bounds
\* largest file size a peer declares in a PUT
MaxSize == 2
\* number of command bytes the server reads, over all connections
MaxCmds == 2
\* the connections the accept loop has handed to handle_client threads
Sessions == {1, 2}
\* number of datagrams that arrive at the discovery port
MaxDgrams == 3

\* --------------------------------------------------------- program constants
CMD_LIST == 0
CMD_GET == 1
CMD_PUT == 2
BUFFER_SIZE == 4096

\* command bytes a peer may send: the three commands and one other value
CmdBytes == {CMD_LIST, CMD_GET, CMD_PUT, 3}

\* ------------------------------------------------------------ names, paths
\* A byte string is a sequence of tokens, each token a run of characters.
\* TokLen is the number of bytes of a token.
TokLen(t) ==
    IF t = ".part" THEN 5
    ELSE IF t = ".." THEN 2
    ELSE IF t \in {"SERVICE DISCOVERY", "service discovery"} THEN 17
    ELSE IF t = "TeamFileShare Service" THEN 21
    ELSE 1

RECURSIVE ByteLen(_)
ByteLen(w) == IF w = <<>> THEN 0 ELSE TokLen(Head(w)) + ByteLen(Tail(w))

\* file names peers put on the wire: a name, the name of its staging file,
\* the name with whitespace around it, and the empty name
WireNames == { <<"a">>, <<"a", ".part">>, <<" ", "a">>, <<>> }
\* the names the peers of concurrent sessions use
SharedNames == { <<"a">>, <<"a", ".part">> }

\* self.shared_dir, an absolute path
shared_dir == <<"/", "shared">>

\* str.strip(): leading and trailing whitespace removed
RECURSIVE lstrip(_)
lstrip(w) == IF w # <<>> /\ Head(w) = " " THEN lstrip(Tail(w)) ELSE w

RECURSIVE rstrip(_)
rstrip(w) == IF w # <<>> /\ w[Len(w)] = " " THEN rstrip(SubSeq(w, 1, Len(w) - 1)) ELSE w

strip(w) == rstrip(lstrip(w))

\* os.path.join(d, name): an absolute name replaces d
join(d, name) == IF name # <<>> /\ Head(name) = "/" THEN name ELSE d \o <<"/">> \o name

\* file_path + ".part"
PartOf(path) == path \o <<".part">>

\* the pieces of a byte string between the separators sep; cur is the
\* piece being read
RECURSIVE split(_, _, _)
split(sep, p, cur) ==
    IF p = <<>> THEN <<cur>>
    ELSE IF Head(p) = sep THEN <<cur>> \o split(sep, Tail(p), <<>>)
    ELSE split(sep, Tail(p), Append(cur, Head(p)))

RECURSIVE walk(_, _)
walk(comps, acc) ==
    IF comps = <<>> THEN acc
    ELSE LET c == Head(comps) IN
         IF c = <<>> THEN walk(Tail(comps), acc)
         ELSE IF c = <<"..">>
              THEN walk(Tail(comps), IF acc = <<>> THEN acc ELSE SubSeq(acc, 1, Len(acc) - 1))
              ELSE walk(Tail(comps), Append(acc, c))

\* the directory entry a path names: its components from the file system root
Resolve(p) == walk(split("/", p, <<>>), <<>>)

\* the directories of the file system: its root and the shared directory
Dirs == { <<>>, Resolve(shared_dir) }

\* --------------------------------------------------------------- the state
VARIABLES
    dir,        \* the file system's directory entries: resolved path -> inode
    data,       \* the bytes of every inode that is linked or open
    pc,         \* where each handle_client thread is
    eof,        \* whether the peer's end of the connection has been seen closed
    cmd,        \* handle_client's cmd
    name_len,   \* handle_client's name_len
    filename,   \* handle_client's filename
    filesize,   \* handle_client's filesize
    received,   \* handle_client's received
    f,          \* handle_client's open file f: its inode and the bytes flushed to it
    out,        \* what the session has sent to its peer since its last command byte
    seq,        \* the ordinal of the command the session is handling
    last,       \* how the session's last command ended (what the server printed)
    ncmd,       \* number of command bytes each session has read so far
    names,      \* the file names the peers send in this run
    complete,   \* the payloads of the PUTs whose declared size was received in full
    inbox,      \* the datagrams waiting in udp_socket, in their order of arrival
    handled,    \* the datagrams recvfrom has returned to udp_listener, in order
    replies     \* the datagrams udp_listener has sent

vars == <<dir, data, pc, eof, cmd, name_len, filename, filesize, received, f, out,
          seq, last, ncmd, names, complete, inbox, handled, replies>>

fsvars == <<dir, data>>
udpvars == <<inbox, handled, replies>>

Min(a, b) == IF a < b THEN a ELSE b
Max(a, b) == IF a > b THEN a ELSE b

\* the commands read so far, over all sessions
RECURSIVE Total(_, _)
Total(cnt, S) == IF S = {} THEN 0 ELSE LET x == CHOOSE x \in S : TRUE IN cnt[x] + Total(cnt, S \ {x})

\* the ordinal of the n-th command of session s
Ordinal(s, n) == s * 10 + n

\* byte i of the payload a peer sends with the command of ordinal k; every
\* byte of every upload is distinct, and distinct from the initial files' bytes
Payload(k, n) == [i \in 1..n |-> <<k, i>>]

\* the byte a hole of a sparse file reads as
ZeroByte == <<0, 0>>

\* the content of the file the shared directory may hold at start-up
InitContent == Payload(0, 1)

NoIno == -1
NoFd == [ino |-> NoIno, off |-> 0]
NoCmd == -1
NoEv == [ev |-> "none", name |-> <<>>, data |-> <<>>]
Ev(e, n, d) == [ev |-> e, name |-> n, data |-> d]

\* struct.pack("!I", n), struct.pack("!Q", n) and raw bytes, as sent
Pack(fmt, n) == [fmt |-> fmt, v |-> n, bytes |-> <<>>]
Raw(b) == [fmt |-> "raw", v |-> Len(b), bytes |-> b]

\* ---------------------------------------------------------- the file system
IsDir(k) == k \in Dirs
IsFile(k) == k \in DOMAIN dir
\* os.path.exists(path)
Exists(path) == IsDir(Resolve(path)) \/ IsFile(Resolve(path))
Parent(k) == SubSeq(k, 1, Len(k) - 1)

\* the inodes a directory entry or an open file refers to
Live(d, fds) == {d[k] : k \in DOMAIN d} \cup ({fds[s].ino : s \in Sessions} \ {NoIno})
\* an inode's bytes are freed with its last link and its last open file
Gc(dt, d, fds) == [i \in (DOMAIN dt) \cap Live(d, fds) |-> dt[i]]

\* pwrite of bytes b at offset off into content c
WriteAt(c, off, b) ==
    IF b = <<>> THEN c
    ELSE LET n == Max(Len(c), off + Len(b))
         IN [i \in 1..n |-> IF i > off /\ i <= off + Len(b) THEN b[i - off]
                            ELSE IF i <= Len(c) THEN c[i] ELSE ZeroByte]

\* os.listdir(self.shared_dir): the names of the entries of the shared
\* directory, each once, in an order the file system chooses
EntryNames(d) == {k[Len(k)] : k \in {x \in DOMAIN d : Parent(x) = Resolve(shared_dir)}}
listdir(d) ==
    LET S == EntryNames(d)
    IN CHOOSE q \in [1..Cardinality(S) -> S] : \A i, j \in 1..Cardinality(S) : i # j => q[i] # q[j]

\* "\n".join(files)
RECURSIVE JoinLines(_)
JoinLines(files) ==
    IF files = <<>> THEN <<>>
    ELSE IF Len(files) = 1 THEN files[1]
    ELSE files[1] \o <<"\n">> \o JoinLines(Tail(files))

\* ---------------------------------------------------------------- start-up
\* After construction (os.makedirs(shared_dir, exist_ok=True)) the shared
\* directory exists; it is empty or holds a file "a".  Every accepted
\* connection has a handle_client thread about to read its first command.
FileA == Resolve(join(shared_dir, <<"a">>))

InitFs ==
    \/ dir = << >> /\ data = << >>
    \/ dir = (FileA :> 0) /\ data = (0 :> InitContent)

\* the connections in open have a handle_client thread, those in waiting
\* are established and wait in the listen queue for accept, the others have
\* ended; udp_socket is bound and nothing has arrived at it
InitConns(open, waiting, wire) ==
    /\ names = wire
    /\ inbox = <<>>
    /\ handled = <<>>
    /\ replies = <<>>
    /\ pc = [s \in Sessions |-> IF s \in open THEN "AwaitingCommand"
                                ELSE IF s \in waiting THEN "Backlog" ELSE "Closed"]
    /\ eof = [s \in Sessions |-> FALSE]
    /\ cmd = [s \in Sessions |-> NoCmd]
    /\ name_len = [s \in Sessions |-> 0]
    /\ filename = [s \in Sessions |-> <<>>]
    /\ filesize = [s \in Sessions |-> 0]
    /\ received = [s \in Sessions |-> 0]
    /\ f = [s \in Sessions |-> NoFd]
    /\ out = [s \in Sessions |-> <<>>]
    /\ seq = [s \in Sessions |-> 0]
    /\ last = [s \in Sessions |-> NoEv]
    /\ ncmd = [s \in Sessions |-> 0]
    /\ complete = {}

InitSessions(open, wire) == InitConns(open, {}, wire)

Init == InitFs /\ InitSessions(Sessions, SharedNames)

\* ------------------------------------------------------------ bookkeeping
\* the locals of handle_client, which the next iteration of its loop resets
Locals(s, c, nl, fn, fsz, rc) ==
    /\ cmd' = [cmd EXCEPT ![s] = c]
    /\ name_len' = [name_len EXCEPT ![s] = nl]
    /\ filename' = [filename EXCEPT ![s] = fn]
    /\ filesize' = [filesize EXCEPT ![s] = fsz]
    /\ received' = [received EXCEPT ![s] = rc]

KeepLocals == UNCHANGED <<cmd, name_len, filename, filesize, received>>

\* the thread goes on to position p, having sent what makes its output o
Goto(s, p, o) ==
    /\ pc' = [pc EXCEPT ![s] = p]
    /\ out' = [out EXCEPT ![s] = o]
    /\ UNCHANGED <<last, seq>>

\* the command is done: back to the top of the loop (line 129)
Done(s, e, o) ==
    /\ pc' = [pc EXCEPT ![s] = "AwaitingCommand"]
    /\ last' = [last EXCEPT ![s] = e]
    /\ out' = [out EXCEPT ![s] = o]
    /\ seq' = [seq EXCEPT ![s] = 0]
    /\ Locals(s, NoCmd, 0, <<>>, 0, 0)

\* break, or the except clause of lines 198-200: the loop is left and
\* "with conn" closes the connection
Close(s, e, o) ==
    /\ pc' = [pc EXCEPT ![s] = "Closed"]
    /\ last' = [last EXCEPT ![s] = e]
    /\ out' = [out EXCEPT ![s] = o]
    /\ seq' = [seq EXCEPT ![s] = 0]
    /\ Locals(s, NoCmd, 0, <<>>, 0, 0)

\* the file system after a step: directory d, bytes dt, open files fds
Fs(d, dt, fds) ==
    /\ dir' = d
    /\ f' = fds
    /\ data' = Gc(dt, d, fds)

FilePath(s) == join(shared_dir, filename[s])
TempPath(s) == PartOf(FilePath(s))

\* a fault for Pending: the first buffered byte is lost at every flush
Pending_skip(s, upto) == SubSeq(Payload(seq[s], upto), f[s].off + 2, upto)

\* the bytes of the upload of session s that f has buffered and not yet
\* written: f.write() fills a buffer, which a full buffer or close() flushes
Pending(s, upto) == SubSeq(Payload(seq[s], upto), f[s].off + 1, upto)

\* f.close() of the staging file: what is buffered is written, f is gone
CloseStaging(s, rc) ==
    Fs(dir, [data EXCEPT ![f[s].ino] = WriteAt(@, f[s].off, Pending(s, rc))],
       [f EXCEPT ![s] = NoFd])

\* --------------------------------------------------------------- the steps
\* lines 132-135, 196-197: a command byte arrives
RecvCmd(s) ==
    /\ pc[s] = "AwaitingCommand"
    /\ ~eof[s]
    /\ Total(ncmd, Sessions) < MaxCmds
    /\ ncmd' = [ncmd EXCEPT ![s] = @ + 1]
    /\ \E c \in CmdBytes :
         IF c = CMD_LIST
         THEN /\ pc' = [pc EXCEPT ![s] = "Listing"]
              /\ out' = [out EXCEPT ![s] = <<>>]
              /\ seq' = [seq EXCEPT ![s] = Ordinal(s, ncmd[s] + 1)]
              /\ Locals(s, c, 0, <<>>, 0, 0)
              /\ UNCHANGED last
         ELSE IF c \in {CMD_GET, CMD_PUT}
         THEN /\ pc' = [pc EXCEPT ![s] = "RecvNameLen"]
              /\ out' = [out EXCEPT ![s] = <<>>]
              /\ seq' = [seq EXCEPT ![s] = Ordinal(s, ncmd[s] + 1)]
              /\ Locals(s, c, 0, <<>>, 0, 0)
              /\ UNCHANGED last
         ELSE \* line 197: print "Unknown command", and the loop goes on
              Done(s, Ev("unknown_cmd", <<>>, <<>>), <<>>)
    /\ UNCHANGED <<dir, data, f, eof, names, udpvars, complete>>

\* a fault for RecvCmdEof: an empty read is taken for "no command yet" and
\* the loop goes on
RecvCmdEof_spin(s) ==
    /\ pc[s] = "AwaitingCommand"
    /\ Done(s, last[s], <<>>)
    /\ eof' = [eof EXCEPT ![s] = TRUE]
    /\ UNCHANGED <<dir, data, f, ncmd, names, udpvars, complete>>

\* lines 132-134: recv(1) returns no byte, the peer has closed its end
RecvCmdEof(s) ==
    /\ pc[s] = "AwaitingCommand"
    /\ Close(s, Ev("eof", <<>>, <<>>), <<>>)
    /\ eof' = [eof EXCEPT ![s] = TRUE]
    /\ UNCHANGED <<dir, data, f, ncmd, names, udpvars, complete>>

\* lines 138-143: LIST
List(s) ==
    /\ pc[s] = "Listing"
    /\ LET files == listdir(dir)
           listing == JoinLines(files)
       IN Done(s, Ev("list", <<>>, <<>>), <<Pack("!I", ByteLen(listing)), Raw(listing)>>)
    /\ UNCHANGED <<dir, data, f, eof, ncmd, names, udpvars, complete>>

\* lines 146-149: recvall(conn, 4); fewer than 4 bytes when the peer closed
RecvNameLen(s) ==
    /\ pc[s] = "RecvNameLen"
    /\ \/ \E got \in 0..3 :
            /\ Close(s, Ev("short_len", <<>>, <<>>), out[s])
            /\ eof' = [eof EXCEPT ![s] = TRUE]
       \/ \E w \in names :
            /\ ~eof[s]
            /\ Goto(s, "RecvName", out[s])
            /\ Locals(s, cmd[s], ByteLen(w), <<>>, 0, 0)
            /\ UNCHANGED eof
    /\ UNCHANGED <<dir, data, f, ncmd, names, udpvars, complete>>

\* a fault for RecvName: a filename cut short by the peer's close is used
RecvName_lax(s) ==
    /\ pc[s] = "RecvName"
    /\ \E w \in names, got \in 0..name_len[s] :
         /\ ByteLen(w) = name_len[s]
         /\ Goto(s, IF cmd[s] = CMD_GET THEN "GetExists" ELSE "RecvSize", out[s])
         /\ Locals(s, cmd[s], name_len[s], IF got < name_len[s] THEN <<>> ELSE strip(w), 0, 0)
         /\ eof' = [eof EXCEPT ![s] = got < name_len[s]]
    /\ UNCHANGED <<dir, data, f, ncmd, names, udpvars, complete>>

\* lines 151-155: recvall(conn, name_len), decode, strip
RecvName(s) ==
    /\ pc[s] = "RecvName"
    /\ \/ \E got \in 0..(name_len[s] - 1) :
            /\ Close(s, Ev("short_name", <<>>, <<>>), out[s])
            /\ eof' = [eof EXCEPT ![s] = TRUE]
       \/ \E w \in names :
            /\ ~eof[s]
            /\ ByteLen(w) = name_len[s]
            /\ Goto(s, IF cmd[s] = CMD_GET THEN "GetExists" ELSE "RecvSize", out[s])
            /\ Locals(s, cmd[s], name_len[s], strip(w), 0, 0)
            /\ UNCHANGED eof
    /\ UNCHANGED <<dir, data, f, ncmd, names, udpvars, complete>>

\* os.path.getsize of a directory: the size of its entry table
DirSize == 4096

\* os.path.getsize(path), for a path that exists
getsize(path) == IF IsDir(Resolve(path)) THEN DirSize ELSE Len(data[dir[Resolve(path)]])

\* a fault for GetExists: nothing is sent for a file that does not exist
GetExists_silent(s) ==
    /\ pc[s] = "GetExists"
    /\ IF ~Exists(FilePath(s))
       THEN Done(s, Ev("get_absent", filename[s], <<>>), out[s])
       ELSE /\ Goto(s, "GetSize", out[s])
            /\ KeepLocals
    /\ UNCHANGED <<dir, data, f, eof, ncmd, names, udpvars, complete>>

\* lines 158-160: GET, os.path.exists(file_path); size 0 when it does not exist
GetExists(s) ==
    /\ pc[s] = "GetExists"
    /\ IF ~Exists(FilePath(s))
       THEN Done(s, Ev("get_absent", filename[s], <<>>), Append(out[s], Pack("!Q", 0)))
       ELSE /\ Goto(s, "GetSize", out[s])
            /\ KeepLocals
    /\ UNCHANGED <<dir, data, f, eof, ncmd, names, udpvars, complete>>

\* lines 162-163: os.path.getsize(file_path), which raises when the file is
\* gone, and the size header
GetSize(s) ==
    /\ pc[s] = "GetSize"
    /\ IF ~Exists(FilePath(s))
       THEN Close(s, Ev("fs_error", <<>>, <<>>), out[s])
       ELSE /\ Goto(s, "GetOpen", Append(out[s], Pack("!Q", getsize(FilePath(s)))))
            /\ Locals(s, cmd[s], name_len[s], filename[s], getsize(FilePath(s)), 0)
    /\ UNCHANGED <<dir, data, f, eof, ncmd, names, udpvars, complete>>

\* line 164: open(file_path, "rb"), which raises for a directory or a
\* missing file
GetOpen(s) ==
    /\ pc[s] = "GetOpen"
    /\ IF ~IsFile(Resolve(FilePath(s)))
       THEN /\ Close(s, Ev("fs_error", <<>>, <<>>), out[s])
            /\ UNCHANGED f
       ELSE /\ Goto(s, "GetRead", out[s])
            /\ f' = [f EXCEPT ![s] = [ino |-> dir[Resolve(FilePath(s))], off |-> 0]]
            /\ KeepLocals
    /\ UNCHANGED <<dir, data, eof, ncmd, names, udpvars, complete>>

\* lines 165-169: f.read(BUFFER_SIZE) and sendall(chunk), until the read
\* returns nothing; then f is closed
GetRead(s) ==
    /\ pc[s] = "GetRead"
    /\ LET content == data[f[s].ino]
           chunk == SubSeq(content, f[s].off + 1, Min(Len(content), f[s].off + BUFFER_SIZE))
       IN IF chunk = <<>>
          THEN /\ Fs(dir, data, [f EXCEPT ![s] = NoFd])
               /\ Done(s, Ev("get_sent", filename[s], <<>>), out[s])
          ELSE /\ Fs(dir, data, [f EXCEPT ![s].off = @ + Len(chunk)])
               /\ Goto(s, "GetRead", Append(out[s], Raw(chunk)))
               /\ KeepLocals
    /\ UNCHANGED <<eof, ncmd, names, udpvars, complete>>

\* lines 173-176: recvall(conn, 8); fewer than 8 bytes when the peer closed
RecvSize(s) ==
    /\ pc[s] = "RecvSize"
    /\ \/ \E got \in 0..7 :
            /\ Close(s, Ev("short_size", <<>>, <<>>), out[s])
            /\ eof' = [eof EXCEPT ![s] = TRUE]
       \/ \E n \in 0..MaxSize :
            /\ ~eof[s]
            /\ Goto(s, "PutOpen", out[s])
            /\ Locals(s, cmd[s], name_len[s], filename[s], n, 0)
            /\ UNCHANGED eof
    /\ UNCHANGED <<dir, data, f, ncmd, names, udpvars, complete>>

\* lines 178-181: received = 0 and open(temp_path, "wb"), which creates
\* the staging file or truncates the one that exists; with filesize 0 the
\* loop is not entered and f is closed at once
PutOpen(s) ==
    /\ pc[s] = "PutOpen"
    /\ LET k == Resolve(TempPath(s))
           ino == IF IsFile(k) THEN dir[k] ELSE seq[s]
           d == IF IsFile(k) THEN dir ELSE dir @@ (k :> ino)
           dt == IF IsFile(k) THEN [data EXCEPT ![ino] = <<>>] ELSE data @@ (ino :> <<>>)
       IN IF IsDir(k) \/ ~IsDir(Parent(k))
          THEN /\ Close(s, Ev("fs_error", <<>>, <<>>), out[s])
               /\ UNCHANGED <<dir, data, f, complete>>
          ELSE /\ KeepLocals
               /\ IF filesize[s] = 0
                  THEN /\ Fs(d, dt, f)
                       /\ Goto(s, "PutRename", out[s])
                       /\ complete' = complete \cup {<<>>}
                  ELSE /\ Fs(d, dt, [f EXCEPT ![s] = [ino |-> ino, off |-> 0]])
                       /\ Goto(s, "PutRecv", out[s])
                       /\ UNCHANGED complete
    /\ UNCHANGED <<eof, ncmd, names, udpvars>>

\* a fault for PutRecv: recv(BUFFER_SIZE), which also takes the command byte
\* the peer has sent after the payload
PutRecv_greedy(s) ==
    /\ pc[s] = "PutRecv"
    /\ ~eof[s]
    /\ \E n \in 1..Min(BUFFER_SIZE, filesize[s] - received[s] + 1) :
         LET rc == received[s] + n
         IN /\ Locals(s, cmd[s], name_len[s], filename[s], filesize[s], rc)
            /\ IF rc >= filesize[s]
               THEN /\ CloseStaging(s, rc)
                    /\ Goto(s, IF rc = filesize[s] THEN "PutRename" ELSE "PutExists", out[s])
                    /\ complete' = complete \cup {Payload(seq[s], rc)}
               ELSE /\ \E upto \in f[s].off..rc :
                         Fs(dir, [data EXCEPT ![f[s].ino] = WriteAt(@, f[s].off, Pending(s, upto))],
                            [f EXCEPT ![s].off = upto])
                    /\ Goto(s, "PutRecv", out[s])
                    /\ UNCHANGED complete
    /\ UNCHANGED <<eof, ncmd, names, udpvars>>

\* lines 181-186: recv of at most min(BUFFER_SIZE, filesize - received)
\* bytes, f.write(chunk); the chunk is buffered, and any part of the buffer
\* may reach the file now.  Once received = filesize the loop ends and f is
\* closed, which writes the rest of the buffer.
PutRecv(s) ==
    /\ pc[s] = "PutRecv"
    /\ ~eof[s]
    /\ \E n \in 1..Min(BUFFER_SIZE, filesize[s] - received[s]) :
         LET rc == received[s] + n
         IN /\ Locals(s, cmd[s], name_len[s], filename[s], filesize[s], rc)
            /\ IF rc = filesize[s]
               THEN /\ CloseStaging(s, rc)
                    /\ Goto(s, "PutRename", out[s])
                    /\ complete' = complete \cup {Payload(seq[s], rc)}
               ELSE /\ \E upto \in f[s].off..rc :
                         Fs(dir, [data EXCEPT ![f[s].ino] = WriteAt(@, f[s].off, Pending(s, upto))],
                            [f EXCEPT ![s].off = upto])
                    /\ Goto(s, "PutRecv", out[s])
                    /\ UNCHANGED complete
    /\ UNCHANGED <<eof, ncmd, names, udpvars>>

\* lines 182-184: recv returns no byte, the peer has closed its end; the
\* loop is left with received < filesize and f is closed
PutRecvEof(s) ==
    /\ pc[s] = "PutRecv"
    /\ CloseStaging(s, received[s])
    /\ Goto(s, "PutExists", out[s])
    /\ eof' = [eof EXCEPT ![s] = TRUE]
    /\ KeepLocals
    /\ UNCHANGED <<ncmd, names, udpvars, complete>>

\* lines 188-190: received == filesize, os.rename(temp_path, file_path),
\* which raises when the staging file is gone or file_path is a directory
PutRename(s) ==
    /\ pc[s] = "PutRename"
    /\ LET src == Resolve(TempPath(s))
           dst == Resolve(FilePath(s))
       IN IF ~IsFile(src) \/ IsDir(dst)
          THEN /\ Close(s, Ev("fs_error", <<>>, <<>>), out[s])
               /\ UNCHANGED <<dir, data, f>>
          ELSE /\ Fs([k \in (DOMAIN dir \cup {dst}) \ {src} |-> IF k = dst THEN dir[src] ELSE dir[k]],
                     data, f)
               /\ Done(s, Ev("put_stored", filename[s], Payload(seq[s], filesize[s])), out[s])
    /\ UNCHANGED <<eof, ncmd, names, udpvars, complete>>

\* line 193: received != filesize, os.path.exists(temp_path); line 195
\* when it does not exist
PutExists(s) ==
    /\ pc[s] = "PutExists"
    /\ IF Exists(TempPath(s))
       THEN /\ Goto(s, "PutRemove", out[s])
            /\ KeepLocals
       ELSE Done(s, Ev("put_incomplete", filename[s], <<>>), out[s])
    /\ UNCHANGED <<dir, data, f, eof, ncmd, names, udpvars, complete>>

\* lines 194-195: os.remove(temp_path), which raises when the staging file
\* is gone
PutRemove(s) ==
    /\ pc[s] = "PutRemove"
    /\ LET k == Resolve(TempPath(s))
       IN IF ~IsFile(k)
          THEN /\ Close(s, Ev("fs_error", <<>>, <<>>), out[s])
               /\ UNCHANGED <<dir, data, f>>
          ELSE /\ Fs([x \in DOMAIN dir \ {k} |-> dir[x]], data, f)
               /\ Done(s, Ev("put_incomplete", filename[s], <<>>), out[s])
    /\ UNCHANGED <<eof, ncmd, names, udpvars, complete>>

\* lines 198-200: a recv or a sendall raises (the connection is reset);
\* the exception leaves "with open" first, which closes f
SockError(s) ==
    /\ \/ pc[s] \in {"AwaitingCommand", "RecvNameLen", "RecvName", "RecvSize", "PutRecv"} /\ ~eof[s]
       \/ pc[s] \in {"Listing", "GetSize"}
       \/ pc[s] = "GetExists" /\ ~Exists(FilePath(s))
       \/ pc[s] = "GetRead" /\ f[s].off < Len(data[f[s].ino])
    /\ IF pc[s] = "PutRecv"
       THEN CloseStaging(s, received[s])
       ELSE Fs(dir, data, [f EXCEPT ![s] = NoFd])
    /\ Close(s, Ev(IF pc[s] = "PutRecv" THEN "put_error" ELSE "error", <<>>, <<>>),
             IF pc[s] = "AwaitingCommand" THEN <<>> ELSE out[s])
    /\ UNCHANGED <<eof, ncmd, names, udpvars, complete>>

Next ==
    \E s \in Sessions :
        \/ RecvCmd(s)
        \/ RecvCmdEof(s)
        \/ List(s)
        \/ RecvNameLen(s)
        \/ RecvName(s)
        \/ GetExists(s)
        \/ GetSize(s)
        \/ GetOpen(s)
        \/ GetRead(s)
        \/ RecvSize(s)
        \/ PutOpen(s)
        \/ PutRecv(s)
        \/ PutRecvEof(s)
        \/ PutRename(s)
        \/ PutExists(s)
        \/ PutRemove(s)
        \/ SockError(s)

Spec == Init /\ [][Next]_vars

\* one connection only: the other sessions have ended
InitSolo == InitFs /\ InitSessions({1}, WireNames)
SpecSolo == InitSolo /\ [][Next]_vars

\* ----------------------------------------------------- the accept loop
tcpvars == <<dir, data, pc, eof, cmd, name_len, filename, filesize, received, f, out,
             seq, last, ncmd, names, complete>>

\* a fault for Accept: handle_client is called by the accept loop itself,
\* which accepts the next connection when the session has ended
Accept_serial(s) ==
    /\ pc[s] = "Backlog"
    /\ \A t \in Sessions \ {s} : pc[t] \in {"Backlog", "Closed"}
    /\ pc' = [pc EXCEPT ![s] = "AwaitingCommand"]
    /\ UNCHANGED <<dir, data, eof, cmd, name_len, filename, filesize, received, f, out,
                   seq, last, ncmd, names, complete, udpvars>>

\* lines 118-123: accept returns an established connection and a
\* handle_client thread is started for it
Accept(s) ==
    /\ pc[s] = "Backlog"
    /\ pc' = [pc EXCEPT ![s] = "AwaitingCommand"]
    /\ UNCHANGED <<dir, data, eof, cmd, name_len, filename, filesize, received, f, out,
                   seq, last, ncmd, names, complete, udpvars>>

NextAccept == Next \/ \E s \in Sessions : Accept(s)

\* one session is running when a second connection arrives
InitAccept == InitFs /\ InitConns({1}, {2}, SharedNames)
SpecAccept == InitAccept /\ [][NextAccept]_vars

\* file names that point out of the shared directory or below a file of it
PathNames == { <<"a">>, <<"..", "/", "a">>, <<"/", "a">>, <<"a", "/", "a">>, <<>> }

\* one connection, whose peer sends the names of PathNames
InitPaths == InitFs /\ InitSessions({1}, PathNames)
SpecPaths == InitPaths /\ [][Next]_vars

\* ------------------------------------------------- the discovery responder
\* self.service_name (line 78, its default)
service_name == <<"TeamFileShare Service">>
\* the probe text of line 106
PROBE == <<"SERVICE DISCOVERY">>
\* the addresses datagrams come from
Addrs == {1, 2}
\* the datagrams peers send: the probe, the probe with whitespace around it,
\* another text, bytes that are no UTF-8, and the empty datagram; each is
\* shorter than the 1024 bytes recvfrom takes
Datagrams ==
    { PROBE, <<" ", "SERVICE DISCOVERY", " ">>, <<"service discovery">>, <<"0xFF">>, <<>> }

\* bytes.decode(): the text of the bytes, an exception when they are no UTF-8
decode(b) ==
    IF \E i \in 1..Len(b) : b[i] = "0xFF"
    THEN [raised |-> TRUE, text |-> <<>>]
    ELSE [raised |-> FALSE, text |-> b]

\* a datagram arrives at the discovery port
UdpArrive(d, a) ==
    /\ Len(inbox) + Len(handled) < MaxDgrams
    /\ inbox' = Append(inbox, [data |-> d, addr |-> a])
    /\ UNCHANGED <<handled, replies, tcpvars>>

\* a fault for UdpRecv: after a datagram that does not decode, datagrams are
\* still received but no probe is answered
UdpRecv_deaf ==
    /\ inbox # <<>>
    /\ LET m == Head(inbox)
           text == decode(m.data)
       IN /\ inbox' = Tail(inbox)
          /\ handled' = Append(handled, m)
          /\ IF /\ ~text.raised
                /\ strip(text.text) = PROBE
                /\ \A i \in 1..Len(handled) : ~decode(handled[i].data).raised
             THEN replies' = Append(replies, [data |-> service_name, to |-> m.addr,
                                              re |-> Len(handled) + 1])
             ELSE UNCHANGED replies
    /\ UNCHANGED tcpvars

\* lines 105-110: recvfrom, decode, strip, the comparison with the probe
\* text, and sendto for a probe; an exception of decode is printed and the
\* loop goes on.  re is the ordinal of the datagram a reply answers.
UdpRecv ==
    /\ inbox # <<>>
    /\ LET m == Head(inbox)
           text == decode(m.data)
       IN /\ inbox' = Tail(inbox)
          /\ handled' = Append(handled, m)
          /\ IF ~text.raised /\ strip(text.text) = PROBE
             THEN replies' = Append(replies, [data |-> service_name, to |-> m.addr,
                                              re |-> Len(handled) + 1])
             ELSE UNCHANGED replies
    /\ UNCHANGED tcpvars

NextUdp ==
    \/ \E d \in Datagrams, a \in Addrs : UdpArrive(d, a)
    \/ UdpRecv

\* the responder alone: no connection has been made
InitUdp == InitFs /\ InitConns({}, {}, SharedNames)
SpecUdp == InitUdp /\ [][NextUdp]_vars

\* ------------------------------------------------------- the peer closes
\* the peer closes its end of the connection, and every byte it had sent
\* has been received: from now on recv returns no byte
PeerClose(s) ==
    /\ pc[s] \notin {"Backlog", "Closed"}
    /\ ~eof[s]
    /\ eof' = [eof EXCEPT ![s] = TRUE]
    /\ UNCHANGED <<dir, data, pc, cmd, name_len, filename, filesize, received, f, out,
                   seq, last, ncmd, names, complete, udpvars>>

\* the steps of the handle_client thread of session s
Thread(s) ==
    \/ RecvCmd(s) \/ RecvCmdEof(s) \/ List(s) \/ RecvNameLen(s) \/ RecvName(s)
    \/ GetExists(s) \/ GetSize(s) \/ GetOpen(s) \/ GetRead(s) \/ RecvSize(s)
    \/ PutOpen(s) \/ PutRecv(s) \/ PutRecvEof(s) \/ PutRename(s) \/ PutExists(s)
    \/ PutRemove(s) \/ SockError(s)

\* the positions where the thread waits in recv for its peer
RecvPositions == {"AwaitingCommand", "RecvNameLen", "RecvName", "RecvSize", "PutRecv"}
\* the thread can run: it is not waiting for bytes of a peer that is silent
Runnable(s) == pc[s] \notin RecvPositions \/ eof[s]

NextLive == Next \/ \E s \in Sessions : PeerClose(s)

\* one connection, whose peer uses one file name and whose thread is
\* scheduled whenever it can run
LiveNames == { <<"a">> }
InitLive == InitFs /\ InitSessions({1}, LiveNames)
SpecLive == InitLive /\ [][NextLive]_vars /\ \A s \in Sessions : WF_vars(Runnable(s) /\ Thread(s))

\* ------------------------------------------------------------- the claims
\* the entries of the shared directory
RootEntries == {k \in DOMAIN dir : Parent(k) = Resolve(shared_dir)}
\* a name that ends in ".part" is the name of a staging file
IsStagingName(n) == n # <<>> /\ n[Len(n)] = ".part"
\* the public (final) paths: the entries whose name is no staging name
PublicEntries == {k \in RootEntries : ~IsStagingName(k[Len(k)])}

\* the file a directory d with bytes dt holds at entry k
FileAt(d, dt, k) == IF k \in DOMAIN d THEN <<TRUE, dt[d[k]]>> ELSE <<FALSE, <<>>>>

\* the payload bytes of a response o, after its header
RECURSIVE Bytes(_)
Bytes(o) == IF o = <<>> THEN <<>> ELSE Head(o).bytes \o Bytes(Tail(o))

\* the response to a GET of a file with content c, as the peer reads it
IsGetResponse(o, c) == o # <<>> /\ o[1] = Pack("!Q", Len(c)) /\ Bytes(Tail(o)) = c

\* the positions of a GET, and of a PUT that has its staging file
GetPositions == {"GetExists", "GetSize", "GetOpen", "GetRead"}
StagingPositions == {"PutRecv", "PutRename", "PutExists", "PutRemove"}

\* C1: in every reachable state a file at a public (final) path of the
\* shared root holds its initial content or the complete payload of a PUT
\* whose declared size was received in full.
C1_PublicFilesComplete ==
    \A k \in PublicEntries : data[dir[k]] \in {InitContent} \cup complete

\* what C2 asks of a step of session s: of the rename of a PUT, and of a GET
\* that follows a stored PUT of the same name
C2_PutStep(s) ==
    (pc[s] = "PutRename" /\ ~Exists(FilePath(s)) /\ pc'[s] # "PutRename")
        => /\ pc'[s] = "AwaitingCommand"
           /\ last'[s] = Ev("put_stored", filename[s], Payload(seq[s], filesize[s]))
           /\ FileAt(dir', data', Resolve(FilePath(s))) = <<TRUE, Payload(seq[s], filesize[s])>>
C2_GetStep(s) ==
    (pc[s] \in GetPositions /\ last[s].ev = "put_stored" /\ last[s].name = filename[s])
        => /\ pc'[s] = "Closed" => last'[s].ev = "error"
           /\ pc'[s] = "AwaitingCommand" =>
                 /\ last'[s].ev = "get_sent"
                 /\ IsGetResponse(out'[s], last[s].data)
\* C2: on one connection, a PUT of a file name that is not present, with
\* its payload p delivered in full, stores the file, and the GET of the same
\* name that follows it is answered with the size header len(p) and then the
\* bytes of p; only an error of the connection prevents either.
C2_PutThenGet == [][\A s \in Sessions : C2_PutStep(s) /\ C2_GetStep(s)]_vars

\* C2 witness: the first command of session 1 stored two bytes under a name
\* the shared root did not hold, and its second command, a GET, has returned
\* them.
C2_Witness ==
    /\ last[1].ev = "get_sent"
    /\ pc[1] = "AwaitingCommand"
    /\ IsGetResponse(out[1], Payload(Ordinal(1, 1), 2))
    /\ FileA \notin DOMAIN dir

\* what C3 asks of a step by which session s handles an interrupted PUT
C3_Step(s) ==
    (/\ pc[s] \in {"PutRecv", "PutExists", "PutRemove"}
     /\ received[s] < filesize[s]
     /\ pc'[s] \in {"PutExists", "PutRemove", "AwaitingCommand", "Closed"}
     /\ pc'[s] # pc[s])
        => /\ FileAt(dir', data', Resolve(FilePath(s))) = FileAt(dir, data, Resolve(FilePath(s)))
           /\ pc'[s] \in {"AwaitingCommand", "Closed"} => Resolve(TempPath(s)) \notin DOMAIN dir'
\* C3: when a PUT is interrupted before the declared size has been received
\* (the peer closes, or the connection fails), the steps by which the session
\* handles the interruption leave the file at the final path unchanged and,
\* once they are done, no staging file for that name is in the shared root.
C3_InterruptedPutCleansUp == [][\A s \in Sessions : C3_Step(s)]_vars

\* what C4 asks of the step that completes a GET of session s
C4_Step(s) ==
    (/\ pc[s] \in GetPositions
     /\ ~IsStagingName(filename[s])
     /\ pc'[s] = "AwaitingCommand"
     /\ last'[s].ev = "get_sent")
        => \E c \in {InitContent} \cup complete : IsGetResponse(out'[s], c)
\* C4: a GET of a public name that finds the file is answered in full with
\* one version of the file: the size and the bytes of the initial file, or
\* the size and the bytes of a payload that was received in full.
C4_GetSeesOneVersion == [][\A s \in Sessions : C4_Step(s)]_vars

\* the entries of a listing, as the peer reads them: one per line
Lines(listing) == IF listing = <<>> THEN <<>> ELSE split("\n", listing, <<>>)
\* the staging files of the uploads in flight
StagingInFlight == {Resolve(TempPath(t)) : t \in {x \in Sessions : pc[x] \in StagingPositions}}

\* what C5 asks of the LIST step of session s
C5_Step(s) ==
    (pc[s] = "Listing" /\ pc'[s] = "AwaitingCommand")
        => LET e == Lines(out'[s][2].bytes)
           IN /\ \A i, j \in 1..Len(e) : i # j => e[i] # e[j]
              /\ {e[i] : i \in 1..Len(e)} = {k[Len(k)] : k \in RootEntries \ StagingInFlight}
              /\ out'[s][1] = Pack("!I", ByteLen(out'[s][2].bytes))
\* C5: a LIST returns the names of the files at public paths of the shared
\* root, each exactly once, and no staging file of an upload in flight.
C5_ListShowsPublicFiles == [][\A s \in Sessions : C5_Step(s)]_vars

\* what C6 asks of the step of session s that finds the file missing
C6_Step(s) ==
    (pc[s] = "GetExists" /\ ~Exists(FilePath(s)) /\ pc'[s] # "GetExists")
        => \/ /\ pc'[s] = "AwaitingCommand"
              /\ out'[s] = <<Pack("!Q", 0)>>
              /\ ~eof'[s]
              /\ UNCHANGED fsvars
           \/ pc'[s] = "Closed" /\ last'[s].ev = "error"
\* C6: a GET of a name that does not exist sends the 8-byte size header 0
\* and nothing else, and the session is back awaiting a command on the same
\* connection, unless the connection fails.
C6_GetAbsent == [][\A s \in Sessions : C6_Step(s)]_vars

\* C6 witness: a session that answered a GET of a missing file with the
\* header 0 alone is reading the header of its next command.
C6_Witness ==
    \E s \in Sessions : last[s].ev = "get_absent" /\ pc[s] = "RecvNameLen"

\* C7: the size header 0 is sent only for a missing file: once a GET has
\* found its file and sent the size header, that header is not 0.
C7_ZeroMeansAbsent ==
    \A s \in Sessions : pc[s] \in {"GetOpen", "GetRead"} => out[s][1] # Pack("!Q", 0)

\* C8: after a PUT the server has written a status to the peer, for a stored
\* file and for an incomplete transfer alike.
C8_PutStatusSent ==
    \A s \in Sessions :
        (pc[s] = "AwaitingCommand" /\ last[s].ev \in {"put_stored", "put_incomplete"})
            => out[s] # <<>>

\* C9: a session that has read an unknown command byte is Closed.
C9_UnknownCommandCloses ==
    \A s \in Sessions : last[s].ev = "unknown_cmd" => pc[s] = "Closed"

\* what C10 asks of a step of session s
C10_Step(s) ==
    /\ (pc[s] \in {"RecvNameLen", "RecvName", "RecvSize"} /\ ~eof[s] /\ eof'[s])
          => /\ pc'[s] = "Closed"
             /\ out'[s] = <<>>
             /\ UNCHANGED <<dir, data, f>>
    /\ pc[s] = "Closed"
          => /\ pc'[s] = "Closed"
             /\ out'[s] = out[s]
             /\ ncmd'[s] = ncmd[s]
             /\ f'[s] = NoFd
\* C10: when the peer closes before a complete filename length, filename or
\* PUT size has arrived, the session goes to Closed, no file is opened,
\* created, renamed or removed and nothing is sent; a Closed session stays
\* Closed, reads no command byte, sends nothing and has no file open.
C10_TruncatedHeaderCloses == [][\A s \in Sessions : C10_Step(s)]_vars

\* C10 witness: one session was closed by a short filename, the other by a
\* short PUT size.
C10_Witness ==
    \E s, t \in Sessions :
        /\ pc[s] = "Closed" /\ last[s].ev = "short_name"
        /\ pc[t] = "Closed" /\ last[t].ev = "short_size"

\* the replies to the datagram that recvfrom returned as the i-th
RepliesTo(i) == {j \in 1..Len(replies) : replies[j].re = i}

C12_OnlyExactProbeAnswered ==
    \A j \in 1..Len(replies) : handled[replies[j].re].data = PROBE

\* a directory entry strictly inside the shared root directory
Inside(k) ==
    LET root == Resolve(shared_dir)
    IN Len(k) > Len(root) /\ SubSeq(k, 1, Len(root)) = root

\* the paths the commands of session s hand to the file system from its
\* position on: file_path in a GET, file_path and temp_path in a PUT
PathsInUse(s) ==
    IF pc[s] \in GetPositions THEN {FilePath(s)}
    ELSE IF pc[s] \in {"PutOpen"} \cup StagingPositions THEN {FilePath(s), TempPath(s)}
    ELSE {}

\* C13: for every filename of a GET or a PUT, every path the server checks,
\* reads, creates, renames or removes lies strictly inside the shared root
\* directory.
C13_PathsInsideRoot ==
    \A s \in Sessions : \A p \in PathsInUse(s) : Inside(Resolve(p))

\* C14: a file system error during a command is not fatal to the session:
\* no session is Closed by a file system operation that failed.
C14_FsErrorNotFatal ==
    \A s \in Sessions : last[s].ev = "fs_error" => pc[s] # "Closed"

\* the state of the handle_client thread of session t and of its connection
SessionState(t) ==
    <<pc[t], eof[t], cmd[t], name_len[t], filename[t], filesize[t], received[t], f[t],
      out[t], seq[t], last[t], ncmd[t]>>

\* what C15 asks of a step in which the connection of session s fails: the
\* other sessions, the directory entries and every file but the one session
\* s was writing are as before
C15_Step(s) ==
    (/\ pc[s] \notin {"Backlog", "Closed"}
     /\ pc'[s] = "Closed"
     /\ last'[s].ev \in {"error", "put_error"})
        => /\ \A t \in Sessions \ {s} : SessionState(t)' = SessionState(t)
           /\ dir' = dir
           /\ \A i \in DOMAIN data \ {f[s].ino} : i \in DOMAIN data' /\ data'[i] = data[i]

\* C15: a transport error in one session, or a session that waits for bytes
\* of its peer, affects that session only: the error changes nothing of the
\* other sessions, no step changes the state of two sessions, and whatever
\* the sessions are doing, a connection that waits for accept can be
\* accepted and given a session.
C15_SessionsIsolated ==
    /\ [](\A t \in Sessions : pc[t] = "Backlog" => ENABLED Accept(t))
    /\ [][/\ \A s \in Sessions : C15_Step(s)
          /\ \A s, t \in Sessions :
                s # t => SessionState(s)' = SessionState(s) \/ SessionState(t)' = SessionState(t)]_vars

\* C15 witness: the connection of session 1 failed during a PUT, and the
\* connection that waited for accept was accepted and has had its LIST
\* answered.
C15_Witness ==
    /\ pc[1] = "Closed" /\ last[1].ev = "put_error"
    /\ pc[2] = "AwaitingCommand" /\ last[2].ev = "list" /\ out[2] # <<>>

\* the payloads of the sessions other than s whose PUT of the filename of
\* session s has been received in full and is at its rename step, or has
\* just stored the file
RacingPayloads(s) ==
    {Payload(seq[t], filesize[t]) :
        t \in {x \in Sessions \ {s} : pc[x] = "PutRename" /\ filename[x] = filename[s]}}
    \cup
    {last[t].data :
        t \in {x \in Sessions \ {s} : /\ pc[x] = "AwaitingCommand"
                                       /\ last[x].ev = "put_stored"
                                       /\ last[x].name = filename[s]}}

\* what C16 asks of the rename step of session s when another session has
\* put the same filename
C16_Step(s) ==
    (pc[s] = "PutRename" /\ pc'[s] # "PutRename" /\ RacingPayloads(s) # {})
        => /\ pc'[s] = "AwaitingCommand"
           /\ last'[s].ev = "put_stored"
           /\ \E p \in RacingPayloads(s) \cup {Payload(seq[s], filesize[s])} :
                 FileAt(dir', data', Resolve(FilePath(s))) = <<TRUE, p>>
\* C16: when two sessions PUT the same filename at the same time and both
\* payloads arrive in full, each session finishes its PUT without error and
\* the file at the final path is then one of the two payloads, byte for
\* byte.
C16_RacingPutsKeepOnePayload == [][\A s \in Sessions : C16_Step(s)]_vars

\* what C17 asks of the step after which session s, having sent the size
\* header of a GET, reads its next command
C17_Step(s) ==
    (pc[s] \in {"GetOpen", "GetRead"} /\ pc'[s] = "AwaitingCommand")
        => /\ out'[s][1].fmt = "!Q"
           /\ Len(Bytes(Tail(out'[s]))) = out'[s][1].v
\* C17: for every GET of an existing file the server has sent the 8-byte
\* size header and then exactly that many payload bytes when it goes on to
\* read the next command; when the payload is not sent in full the session
\* is Closed instead.
C17_GetResponseAligned == [][\A s \in Sessions : C17_Step(s)]_vars

\* C18: once the peer has closed its end of the connection, the session
\* reaches Closed from whatever position it is in, when its thread is
\* scheduled fairly; an end-of-stream read while awaiting a command leads
\* directly to Closed.
C18_PeerCloseEndsSession ==
    /\ \A s \in Sessions : eof[s] ~> (pc[s] = "Closed")
    /\ [][\A s \in Sessions :
            (pc[s] = "AwaitingCommand" /\ eof'[s] /\ pc'[s] # "AwaitingCommand")
                => pc'[s] = "Closed"]_vars

\* C18 witness: the peer closed in the middle of a PUT payload, and the
\* session is about to remove the staging file.
C18_Witness ==
    \E s \in Sessions : eof[s] /\ pc[s] = "PutRemove" /\ received[s] > 0

\* C19: while a PUT payload is received the bytes taken from the connection
\* are never more than the declared size, however the payload is split into
\* chunks: what is taken is the first received bytes of the payload, the
\* rename step is reached with exactly the declared bytes staged, and the
\* byte after them is left for the read of the next command.
C19_TakesDeclaredSize ==
    \A s \in Sessions :
        /\ received[s] <= filesize[s]
        /\ pc[s] = "PutRecv" =>
              WriteAt(data[f[s].ino], f[s].off, Pending(s, received[s]))
                  = Payload(seq[s], received[s])
        /\ pc[s] = "PutRename" =>
              /\ received[s] = filesize[s]
              /\ FileAt(dir, data, Resolve(TempPath(s))) = <<TRUE, Payload(seq[s], filesize[s])>>
        /\ pc[s] \in {"PutExists", "PutRemove"} => received[s] < filesize[s]

\* C19 witness: a PUT of two bytes was stored, and the byte that followed
\* the payload has been read as the next command.
C19_Witness ==
    /\ pc[1] = "RecvNameLen"
    /\ ncmd[1] = 2
    /\ last[1].ev = "put_stored"
    /\ Len(last[1].data) = 2

\* the entries a step of the PUT of session s has to leave alone: all but
\* the final path and, once the PUT has opened it, its own staging file
OtherEntries(s) ==
    DOMAIN dir \ ({Resolve(FilePath(s))}
                      \cup (IF pc[s] = "PutOpen" THEN {} ELSE {Resolve(TempPath(s))}))

\* what C20 asks of a step of session s
C20_Step(s) ==
    /\ (pc[s] \in {"Listing"} \cup GetPositions /\ pc'[s] # pc[s])
          => /\ dir' = dir
             /\ \A k \in DOMAIN dir : FileAt(dir', data', k) = FileAt(dir, data, k)
    /\ (pc[s] \in {"PutOpen"} \cup StagingPositions /\ SessionState(s)' # SessionState(s))
          => \A k \in OtherEntries(s) : FileAt(dir', data', k) = FileAt(dir, data, k)
\* C20: LIST and GET leave every file of the shared root as it is, and the
\* steps of a PUT of filename f leave every file at a path other than f as
\* it is, in existence and content, a file named f followed by ".part" that
\* was there before the PUT included.
C20_OtherFilesUntouched == [][\A s \in Sessions : C20_Step(s)]_vars

====
